---------------------------- MODULE Spec2Model ----------------------------
(***************************************************************************)
(* A model of the EPG tools of the repository:                             *)
(*   - filter_epg.py      : streaming filter of one XMLTV feed by tvg-id   *)
(*   - update_epg.py      : merge of several feeds (xmltodict variant)     *)
(*   - merge_epg.py       : merge of several feeds (lxml variant) and the  *)
(*                          content optimization pass                      *)
(*   - generate_static_mapping.py : fuzzy channel matching                 *)
(* Strings are sequences of character codes, so that lower(), strip(),     *)
(* split() and the similarity ratio are computed, not assumed.             *)
(***************************************************************************)
EXTENDS Integers, Sequences, FiniteSets, TLC

VARIABLES
    \* ---- filter_epg.py ----
    pc,                        \* position of main()
    channel_lines,             \* lines of the downloaded Allchannels.txt
    original_ids,              \* load_tvg_ids: ids
    wanted_ids_lower,          \* load_tvg_ids: lower_ids
    doc,                       \* the elements iterparse has yielded so far
    out_gz,                    \* what has been written to OUTPUT_FILE
    out_exists,                \* OUTPUT_FILE exists on disk
    out_closed,                \* the gzip sink has been closed
    retained,                  \* the read records the parser's tree still holds
    kept_channel_ids,
    prog_counts,
    total_parsed,
    total_programmes_written,
    total_channels_written,
    \* ---- update_epg.py / merge_epg.py ----
    script,                    \* which merge script runs
    mpc,                       \* position of merge_epgs() / main()
    n_urls,                    \* number of feed URLs of the run
    fed,                       \* the feeds the loop has gone through, in order
    root,                      \* merge_epg.py: children of the <tv> root
    merged_channel,            \* update_epg.py: merged["tv"]["channel"]
    merged_programme,          \* update_epg.py: merged["tv"]["programme"]
    seen_channels,             \* update_epg.py: seen_channels
    files,                     \* the output files written by the merge
    \* ---- merge_epg.py: optimize_epg_content applied to a tree ----
    opc,                       \* how many passes have run
    tree,                      \* the tree before the pass
    once,                      \* the tree after one pass
    twice,                     \* the tree after a second pass
    \* ---- generate_static_mapping.py ----
    fpc,                       \* position of the script
    sim_threshold,             \* the configured SIM_THRESHOLD
    m3u_channels,              \* parse_m3u's result
    epg_channels,              \* download_epg_channels' result
    mapping                    \* match_channels' result: display-name -> tvg-id

filterVars == <<pc, channel_lines, original_ids, wanted_ids_lower, doc, out_gz,
                out_exists, out_closed, retained, kept_channel_ids, prog_counts,
                total_parsed, total_programmes_written, total_channels_written>>

mergeVars == <<script, mpc, n_urls, fed, root, merged_channel, merged_programme,
               seen_channels, files>>

optVars == <<opc, tree, once, twice>>

matchVars == <<fpc, sim_threshold, m3u_channels, epg_channels, mapping>>

vars == <<filterVars, mergeVars, optVars, matchVars>>

\* what each script leaves alone
notFilterVars == <<mergeVars, optVars, matchVars>>
notMergeVars == <<filterVars, optVars, matchVars>>
notOptVars == <<filterVars, mergeVars, matchVars>>
notMatchVars == <<filterVars, mergeVars, optVars>>

-----------------------------------------------------------------------------
(* Bounds of the model *)

\* the number of elements read from one EPG stream
MaxElems == 4

\* the number of feed URLs of a merge run
MaxFeeds == 2

\* the number of child elements of a programme given to the optimization pass
MaxKids == 3

\* the number of EPG channels given to the matcher
MaxCands == 3

-----------------------------------------------------------------------------
(* Characters and strings *)

\* the strings "A", "a", "B", "b" and " A " of the inputs below
strA == <<65>>
stra == <<97>>
strB == <<66>>
strb == <<98>>
strPaddedA == <<32, 65, 32>>
strBlank == <<32>>

\* Python's None: a value that is no string
None == <<-1>>

\* str.lower(), on ASCII
LowerChar(c) == IF c >= 65 /\ c <= 90 THEN c + 32 ELSE c

Lower(s) == [i \in DOMAIN s |-> LowerChar(s[i])]

IsSpace(c) == c \in {9, 10, 11, 12, 13, 32}

RECURSIVE LStrip(_)
LStrip(s) == IF s # <<>> /\ IsSpace(Head(s)) THEN LStrip(Tail(s)) ELSE s

RECURSIVE RStrip(_)
RStrip(s) == IF s # <<>> /\ IsSpace(s[Len(s)]) THEN RStrip(SubSeq(s, 1, Len(s) - 1)) ELSE s

\* str.strip()
Strip(s) == RStrip(LStrip(s))

Range(s) == {s[i] : i \in DOMAIN s}

\* the sequences over S of length n at most
RECURSIVE SeqsUpTo(_, _)
SeqsUpTo(S, n) ==
    IF n = 0 THEN {<<>>}
    ELSE LET shorter == SeqsUpTo(S, n - 1)
         IN  shorter \cup {Append(q, x) : q \in shorter, x \in S}

\* the elements of a sequence with a given tag, in order
ElemsOfKind(s, k) == SelectSeq(s, LAMBDA e : e.kind = k)

-----------------------------------------------------------------------------
(* filter_epg.py *)

\* The channel lists the download may return (one string per line).
ChannelFiles ==
    { <<>>,
      << stra >>,
      << strPaddedA >>,
      << strB, <<>>, stra >>,
      << strb, strBlank, strA >> }

\* The id / channel attribute values of the elements of the stream.
AttrValues == { strA, stra, strB, None }

ChannelElem(id) == [kind |-> "channel", attr |-> id]
ProgrammeElem(ch) == [kind |-> "programme", attr |-> ch]
OtherElem == [kind |-> "other", attr |-> None]

XmlDecl == [kind |-> "xmldecl", attr |-> None]
TvOpen == [kind |-> "tvopen", attr |-> None]
TvClose == [kind |-> "tvclose", attr |-> None]

\* load_tvg_ids: ids = [line.strip() for line in channel_lines if line.strip()]
LoadIds(lines) == SelectSeq([i \in DOMAIN lines |-> Strip(lines[i])], LAMBDA l : l # <<>>)

\* load_tvg_ids: lower_ids = set(i.lower() for i in ids)
LoadLowerIds(ids) == {Lower(i) : i \in Range(ids)}

\* elem.attrib.get("id", "")
CidRaw(elem) == IF elem.attr = None THEN <<>> ELSE elem.attr

ChannelWantedRaw(cid_raw, wanted) == cid_raw \in wanted

\* cid = cid_raw.lower(); if cid in wanted_ids_lower
ChannelWanted(cid_raw, wanted) == Lower(cid_raw) \in wanted

ProgrammeMatchesNotNone(ch, counts) == ch # None

ProgrammeMatchesAnyCase(ch, counts) == Lower(ch) \in {Lower(k) : k \in DOMAIN counts}

\* if ch in prog_counts   (exact case)
ProgrammeMatches(ch, counts) == ch \in DOMAIN counts

\* prog_counts[cid_raw] = 0
CountsReset(counts, cid_raw) ==
    [k \in DOMAIN counts \cup {cid_raw} |-> IF k = cid_raw THEN 0 ELSE counts[k]]

\* prog_counts[ch] += 1
CountsIncr(counts, ch) == [counts EXCEPT ![ch] = @ + 1]

\* filter_epg.py is not running
IdleFilter ==
    /\ pc = "idle"
    /\ channel_lines = <<>>
    /\ original_ids = <<>>
    /\ wanted_ids_lower = {}
    /\ doc = <<>>
    /\ out_gz = <<>>
    /\ out_exists = FALSE
    /\ out_closed = FALSE
    /\ retained = 0
    /\ kept_channel_ids = {}
    /\ prog_counts = [k \in {} |-> 0]
    /\ total_parsed = 0
    /\ total_programmes_written = 0
    /\ total_channels_written = 0

\* the merge scripts are not running
IdleMerge ==
    /\ script = "none"
    /\ mpc = "idle"
    /\ n_urls = 0
    /\ fed = <<>>
    /\ root = <<>>
    /\ merged_channel = <<>>
    /\ merged_programme = <<>>
    /\ seen_channels = {}
    /\ files = {}

\* no tree is being optimized on its own
IdleOpt ==
    /\ opc = "idle"
    /\ tree = <<>>
    /\ once = <<>>
    /\ twice = <<>>

\* generate_static_mapping.py is not running
IdleMatch ==
    /\ fpc = "idle"
    /\ sim_threshold = 0
    /\ m3u_channels = <<>>
    /\ epg_channels = <<>>
    /\ mapping = [k \in {} |-> 0]

InitFilter ==
    /\ IdleMerge
    /\ IdleOpt
    /\ IdleMatch
    /\ pc = "start"
    /\ channel_lines = <<>>
    /\ original_ids = <<>>
    /\ wanted_ids_lower = {}
    /\ doc = <<>>
    /\ out_gz = <<>>
    /\ out_exists = FALSE
    /\ out_closed = FALSE
    /\ retained = 0
    /\ kept_channel_ids = {}
    /\ prog_counts = [k \in {} |-> 0]
    /\ total_parsed = 0
    /\ total_programmes_written = 0
    /\ total_channels_written = 0

\* main step 1: download_channels_file returns the lines
DownloadChannelsFile ==
    /\ pc = "start"
    /\ \E lines \in ChannelFiles : channel_lines' = lines
    /\ pc' = "channels_downloaded"
    /\ UNCHANGED <<original_ids, wanted_ids_lower, doc, out_gz, out_exists, out_closed,
                   kept_channel_ids, prog_counts, total_parsed,
                   total_programmes_written, total_channels_written,
                   retained>>
    /\ UNCHANGED notFilterVars

\* download_channels_file: requests raises, SystemExit(1)
DownloadChannelsFail ==
    /\ pc = "start"
    /\ pc' = "failed"
    /\ UNCHANGED <<channel_lines, original_ids, wanted_ids_lower, doc, out_gz, out_exists,
                   out_closed, kept_channel_ids, prog_counts, total_parsed,
                   total_programmes_written, total_channels_written,
                   retained>>
    /\ UNCHANGED notFilterVars

\* main step 2: load_tvg_ids
LoadTvgIds ==
    /\ pc = "channels_downloaded"
    /\ original_ids' = LoadIds(channel_lines)
    /\ wanted_ids_lower' = LoadLowerIds(LoadIds(channel_lines))
    /\ pc' = "ids_loaded"
    /\ UNCHANGED <<channel_lines, doc, out_gz, out_exists, out_closed, kept_channel_ids,
                   prog_counts, total_parsed, total_programmes_written,
                   total_channels_written,
                   retained>>
    /\ UNCHANGED notFilterVars

\* main step 3: download_epg_stream returns the gzipped bytes
DownloadEpgStream ==
    /\ pc = "ids_loaded"
    /\ pc' = "epg_downloaded"
    /\ UNCHANGED <<channel_lines, original_ids, wanted_ids_lower, doc, out_gz, out_exists,
                   out_closed, kept_channel_ids, prog_counts, total_parsed,
                   total_programmes_written, total_channels_written,
                   retained>>
    /\ UNCHANGED notFilterVars

\* download_epg_stream: requests raises (nothing catches it)
DownloadEpgFail ==
    /\ pc = "ids_loaded"
    /\ pc' = "failed"
    /\ UNCHANGED <<channel_lines, original_ids, wanted_ids_lower, doc, out_gz, out_exists,
                   out_closed, kept_channel_ids, prog_counts, total_parsed,
                   total_programmes_written, total_channels_written,
                   retained>>
    /\ UNCHANGED notFilterVars

\* filter_epg_stream: open OUTPUT_FILE, write the declaration and <tv>
FilterOpen ==
    /\ pc = "epg_downloaded"
    /\ out_exists' = TRUE
    /\ out_gz' = <<XmlDecl, TvOpen>>
    /\ pc' = "streaming"
    /\ UNCHANGED <<channel_lines, original_ids, wanted_ids_lower, doc, out_closed,
                   kept_channel_ids, prog_counts, total_parsed,
                   total_programmes_written, total_channels_written,
                   retained>>
    /\ UNCHANGED notFilterVars

\* one iteration of the iterparse loop, tag == "channel"; elem.clear() empties
\* the element, which stays a child of the <tv> element the parser is building
ReadChannel ==
    /\ pc = "streaming"
    /\ Len(doc) < MaxElems
    /\ \E id \in AttrValues :
         LET elem == ChannelElem(id)
             cid_raw == CidRaw(elem)
         IN  /\ doc' = Append(doc, elem)
             /\ total_parsed' = total_parsed + 1
             /\ retained' = retained + 1
             /\ IF ChannelWanted(cid_raw, wanted_ids_lower)
                THEN /\ out_gz' = Append(out_gz, elem)
                     /\ kept_channel_ids' = kept_channel_ids \cup {cid_raw}
                     /\ prog_counts' = CountsReset(prog_counts, cid_raw)
                     /\ total_channels_written' = total_channels_written + 1
                ELSE UNCHANGED <<out_gz, kept_channel_ids, prog_counts,
                                 total_channels_written>>
    /\ UNCHANGED <<pc, channel_lines, original_ids, wanted_ids_lower, out_exists,
                   out_closed, total_programmes_written>>
    /\ UNCHANGED notFilterVars

\* one iteration of the iterparse loop, tag == "programme"; elem.clear() as above
ReadProgramme ==
    /\ pc = "streaming"
    /\ Len(doc) < MaxElems
    /\ \E ch \in AttrValues :
         LET elem == ProgrammeElem(ch)
         IN  /\ doc' = Append(doc, elem)
             /\ total_parsed' = total_parsed + 1
             /\ retained' = retained + 1
             /\ IF ProgrammeMatches(ch, prog_counts)
                THEN /\ out_gz' = Append(out_gz, elem)
                     /\ prog_counts' = CountsIncr(prog_counts, ch)
                     /\ total_programmes_written' = total_programmes_written + 1
                ELSE UNCHANGED <<out_gz, prog_counts, total_programmes_written>>
    /\ UNCHANGED <<pc, channel_lines, original_ids, wanted_ids_lower, out_exists,
                   out_closed, kept_channel_ids, total_channels_written>>
    /\ UNCHANGED notFilterVars

\* one iteration of the iterparse loop, any other tag (display-name, title, tv, ...):
\* the element stays in its record until the record is cleared
ReadOther ==
    /\ pc = "streaming"
    /\ Len(doc) < MaxElems
    /\ doc' = Append(doc, OtherElem)
    /\ total_parsed' = total_parsed + 1
    /\ UNCHANGED <<pc, channel_lines, original_ids, wanted_ids_lower, out_gz, out_exists,
                   out_closed, kept_channel_ids, prog_counts, total_programmes_written,
                   total_channels_written,
                   retained>>
    /\ UNCHANGED notFilterVars

\* iterparse raises ParseError (or gzip raises): the with block closes the sink,
\* the exception leaves filter_epg_stream and main
ParseError ==
    /\ pc = "streaming"
    /\ out_closed' = TRUE
    /\ pc' = "failed"
    /\ UNCHANGED <<channel_lines, original_ids, wanted_ids_lower, doc, out_gz, out_exists,
                   kept_channel_ids, prog_counts, total_parsed,
                   total_programmes_written, total_channels_written,
                   retained>>
    /\ UNCHANGED notFilterVars

\* EndOfStream, but the closing tag is not written
EndOfStreamUnclosed ==
    /\ pc = "streaming"
    /\ out_closed' = TRUE
    /\ pc' = "filtered"
    /\ UNCHANGED <<channel_lines, original_ids, wanted_ids_lower, doc, out_gz, out_exists,
                   kept_channel_ids, prog_counts, total_parsed,
                   total_programmes_written, total_channels_written,
                   retained>>
    /\ UNCHANGED notFilterVars

\* the stream ends: write </tv>, close the sink, return the results
EndOfStream ==
    /\ pc = "streaming"
    /\ out_gz' = Append(out_gz, TvClose)
    /\ out_closed' = TRUE
    /\ pc' = "filtered"
    /\ UNCHANGED <<channel_lines, original_ids, wanted_ids_lower, doc, out_exists,
                   kept_channel_ids, prog_counts, total_parsed,
                   total_programmes_written, total_channels_written,
                   retained>>
    /\ UNCHANGED notFilterVars

\* main: getsize, pretty_summary, "Done"
Summary ==
    /\ pc = "filtered"
    /\ pc' = "done"
    /\ UNCHANGED <<channel_lines, original_ids, wanted_ids_lower, doc, out_gz, out_exists,
                   out_closed, kept_channel_ids, prog_counts, total_parsed,
                   total_programmes_written, total_channels_written,
                   retained>>
    /\ UNCHANGED notFilterVars

NextFilter ==
    \/ DownloadChannelsFile
    \/ DownloadChannelsFail
    \/ LoadTvgIds
    \/ DownloadEpgStream
    \/ DownloadEpgFail
    \/ FilterOpen
    \/ ReadChannel
    \/ ReadProgramme
    \/ ReadOther
    \/ ParseError
    \/ EndOfStream
    \/ Summary

SpecFilter == InitFilter /\ [][NextFilter]_vars


-----------------------------------------------------------------------------
(* merge_epg.py: optimize_epg_content *)

\* A tree element: a child of <tv>. attr is the id of a channel or the channel
\* of a programme; children are the child elements of a programme.
Chan(id) == [kind |-> "channel", attr |-> id, children |-> <<>>]
Prog(ch, kids) == [kind |-> "programme", attr |-> ch, children |-> kids]

\* A child element of a programme: its tag, its text (None when absent), its
\* attributes (None when it has none) and the number of its own children.
Child(tag, text, attrib, sub) == [tag |-> tag, text |-> text, attrib |-> attrib, sub |-> sub]

elements_to_strip == <<"sub-title", "credits", "star-rating", "review", "icon", "language">>

elements_to_check == <<"desc", "title">>

\* programme.find(tag): the position of the first child with that tag, 0 for None
Find(kids, tag) ==
    IF \E i \in DOMAIN kids : kids[i].tag = tag
    THEN CHOOSE i \in DOMAIN kids :
             kids[i].tag = tag /\ \A j \in 1..(i - 1) : kids[j].tag # tag
    ELSE 0

\* parent.remove(element)
RemoveAt(kids, i) == SubSeq(kids, 1, i - 1) \o SubSeq(kids, i + 1, Len(kids))

RemoveAll(kids, tag) == SelectSeq(kids, LAMBDA k : k.tag # tag)

RemoveFirst(kids, tag) == IF Find(kids, tag) = 0 THEN kids ELSE RemoveAt(kids, Find(kids, tag))

\* for tag in elements_to_strip: remove the element find() returns
RECURSIVE StripTags(_, _)
StripTags(kids, tags) ==
    IF tags = <<>> THEN kids
    ELSE StripTags(RemoveFirst(kids, Head(tags)), Tail(tags))

\* re.sub(r'\s{2,}', ' ', text)
RECURSIVE CollapseSpaces(_)
CollapseSpaces(s) ==
    IF s = <<>> THEN <<>>
    ELSE IF IsSpace(s[1])
         THEN LET n == Len(s) - Len(LStrip(s))
              IN  (IF n >= 2 THEN <<32>> ELSE <<s[1]>>)
                      \o CollapseSpaces(SubSeq(s, n + 1, Len(s)))
         ELSE <<s[1]>> \o CollapseSpaces(Tail(s))

\* re.sub(r'\s{2,}', ' ', element.text).strip()
NormalizeText(text) == Strip(CollapseSpaces(text))

\* CheckTag, but the cleaned element is built anew from its tag and text
CheckTagRebuild(kids, tag) ==
    LET i == Find(kids, tag)
    IN  IF i = 0 THEN kids
        ELSE IF kids[i].text # None
             THEN IF NormalizeText(kids[i].text) = <<>>
                  THEN RemoveAt(kids, i)
                  ELSE [kids EXCEPT ![i] = Child(tag, NormalizeText(kids[i].text), None, 0)]
             ELSE IF kids[i].sub = 0 /\ kids[i].attrib = None
                  THEN RemoveAt(kids, i)
                  ELSE kids

\* the body of the loop over elements_to_check, for one tag
CheckTag(kids, tag) ==
    LET i == Find(kids, tag)
    IN  IF i = 0 THEN kids
        ELSE IF kids[i].text # None
             THEN IF NormalizeText(kids[i].text) = <<>>
                  THEN RemoveAt(kids, i)
                  ELSE [kids EXCEPT ![i].text = NormalizeText(kids[i].text)]
             ELSE IF kids[i].sub = 0 /\ kids[i].attrib = None
                  THEN RemoveAt(kids, i)
                  ELSE kids

RECURSIVE CheckTags(_, _)
CheckTags(kids, tags) ==
    IF tags = <<>> THEN kids
    ELSE CheckTags(CheckTag(kids, Head(tags)), Tail(tags))

\* the body of the loop over root.iter('programme'), for one programme
OptimizeProgramme(kids) == CheckTags(StripTags(kids, elements_to_strip), elements_to_check)

\* optimize_epg_content(root)
OptimizeEpgContent(tv) ==
    [i \in DOMAIN tv |->
        IF tv[i].kind = "programme"
        THEN [tv[i] EXCEPT !.children = OptimizeProgramme(tv[i].children)]
        ELSE tv[i]]

-----------------------------------------------------------------------------
(* update_epg.py: merge_epgs, and merge_epg.py: main *)

\* the texts "a", "a  b" and " " and the attribute value "en"
txtA == <<97>>
txtWide == <<97, 32, 32, 98>>
txtEn == <<101, 110>>
\* the dictionary key "@channel"
strAtChannel == <<64, 99, 104, 97, 110, 110, 101, 108>>
\* the dictionary keys "title", "icon", "desc"
TagChars(tag) ==
    CASE tag = "title" -> <<116, 105, 116, 108, 101>>
      [] tag = "icon" -> <<105, 99, 111, 110>>
      [] tag = "desc" -> <<100, 101, 115, 99>>
      [] OTHER -> <<63>>

KidsTitle == << Child("title", txtA, None, 0) >>
KidsIcons == << Child("icon", None, txtEn, 0), Child("title", txtWide, txtEn, 0),
                Child("icon", None, txtA, 0) >>

\* The documents a feed URL may deliver: the children of its <tv>, in order.
FeedDocs ==
    { \* two channels, three programmes of the first
      << Chan(strA), Chan(strB), Prog(strA, KidsTitle), Prog(strA, <<>>), Prog(strA, KidsIcons) >>,
      \* two channels whose ids differ in case only
      << Chan(strA), Chan(stra), Prog(strA, <<>>), Prog(stra, <<>>) >>,
      \* one channel, two programmes
      << Chan(strA), Prog(strA, <<>>), Prog(strA, KidsTitle) >>,
      \* two channels, one programme
      << Chan(strB), Chan(strA), Prog(strB, KidsTitle) >>,
      \* channels only
      << Chan(strA), Chan(strB) >>,
      \* programmes before their channel, and programmes of no channel
      << Prog(strB, <<>>), Chan(strB), Chan(strB), Prog(strB, <<>>), Prog(strb, <<>>) >>,
      \* an empty <tv/>
      << >>,
      \* a channel without id
      << Chan(None), Chan(strA), Prog(strA, <<>>), Prog(strA, <<>>) >> }

FeedOk(f) == [ok |-> TRUE, elems |-> f]
FeedFailed == [ok |-> FALSE, elems |-> <<>>]

\* xmltodict.parse: epg_dict["tv"]["channel"] is a list of dicts only when the
\* feed has two channels or more (one child gives a dict, none gives no key),
\* and ch["@id"] needs the id attribute
ChannelListOk(f) ==
    /\ Len(ElemsOfKind(f, "channel")) >= 2
    /\ \A c \in Range(ElemsOfKind(f, "channel")) : c.attr # None

\* xmltodict.parse: the keys of the dict of a single programme
RECURSIVE DistinctTags(_)
DistinctTags(kids) ==
    IF kids = <<>> THEN <<>>
    ELSE <<kids[1].tag>> \o DistinctTags(RemoveAll(Tail(kids), kids[1].tag))

ProgrammeKeys(p) ==
    (IF p.attr = None THEN <<>> ELSE <<strAtChannel>>)
        \o [i \in DOMAIN DistinctTags(p.children) |-> TagChars(DistinctTags(p.children)[i])]

\* what unparse emits for a str item of the programme list: <programme>key</programme>
KeyProgramme(key) == Prog(None, << Child("#text", key, None, 0) >>)

\* what merged["tv"]["programme"].extend(epg_dict["tv"]["programme"]) appends:
\* the programmes of a list, the keys of a single dict
ProgrammeExtension(f) ==
    LET ps == ElemsOfKind(f, "programme")
    IN  IF Len(ps) = 1
        THEN [i \in DOMAIN ProgrammeKeys(ps[1]) |-> KeyProgramme(ProgrammeKeys(ps[1])[i])]
        ELSE ps

\* if ch["@id"] not in seen_channels
NotSeen(id, seen) == id \notin seen

\* the loop over epg_dict["tv"]["channel"]: <<merged channels, seen ids>>
RECURSIVE MergeChannels(_, _, _)
MergeChannels(chs, merged, seen) ==
    IF chs = <<>> THEN <<merged, seen>>
    ELSE IF NotSeen(chs[1].attr, seen)
         THEN MergeChannels(Tail(chs), Append(merged, chs[1]), seen \cup {chs[1].attr})
         ELSE MergeChannels(Tail(chs), merged, seen)

InitMerge ==
    /\ IdleFilter
    /\ IdleOpt
    /\ IdleMatch
    /\ script \in {"update_epg", "merge_epg"}
    /\ mpc = "start"
    /\ n_urls = 0
    /\ fed = <<>>
    /\ root = <<>>
    /\ merged_channel = <<>>
    /\ merged_programme = <<>>
    /\ seen_channels = {}
    /\ files = {}

\* update_epg.py: merge_epgs starts on the EPG_URLS list
MergeEpgsStart ==
    /\ script = "update_epg"
    /\ mpc = "start"
    /\ n_urls' = MaxFeeds
    /\ mpc' = "merging"
    /\ UNCHANGED <<script, fed, root, merged_channel, merged_programme, seen_channels, files>>
    /\ UNCHANGED notMergeVars

\* update_epg.py: one iteration of the loop over EPG_URLS, the feed is parsed
MergeEpgsFeed ==
    /\ script = "update_epg"
    /\ mpc = "merging"
    /\ Len(fed) < n_urls
    /\ \E f \in FeedDocs :
         IF ChannelListOk(f) /\ ElemsOfKind(f, "programme") # <<>>
         THEN LET r == MergeChannels(ElemsOfKind(f, "channel"), merged_channel, seen_channels)
              IN  /\ merged_channel' = r[1]
                  /\ seen_channels' = r[2]
                  /\ merged_programme' = merged_programme \o ProgrammeExtension(f)
                  /\ fed' = Append(fed, FeedOk(f))
                  /\ mpc' = mpc
         ELSE \* KeyError / TypeError leaves merge_epgs
              /\ fed' = Append(fed, FeedOk(f))
              /\ mpc' = "failed"
              /\ UNCHANGED <<merged_channel, merged_programme, seen_channels>>
    /\ UNCHANGED <<script, n_urls, root, files>>
    /\ UNCHANGED notMergeVars

\* update_epg.py: requests.get, gzip.decompress or xmltodict.parse raises
MergeEpgsFeedFail ==
    /\ script = "update_epg"
    /\ mpc = "merging"
    /\ Len(fed) < n_urls
    /\ fed' = Append(fed, FeedFailed)
    /\ mpc' = "failed"
    /\ UNCHANGED <<script, n_urls, root, merged_channel, merged_programme, seen_channels, files>>
    /\ UNCHANGED notMergeVars

\* update_epg.py: unparse and write OUTPUT_FILE
MergeEpgsWrite ==
    /\ script = "update_epg"
    /\ mpc = "merging"
    /\ Len(fed) = n_urls
    /\ files' = {"combined_epg.xml.gz"}
    /\ mpc' = "done"
    /\ UNCHANGED <<script, n_urls, fed, root, merged_channel, merged_programme, seen_channels>>
    /\ UNCHANGED notMergeVars

\* merge_epg.py: get_latest_epg_urls resolves the URLs (none when the index fails)
MainResolveUrls ==
    /\ script = "merge_epg"
    /\ mpc = "start"
    /\ \E n \in 0..MaxFeeds :
         /\ n_urls' = n
         /\ mpc' = IF n = 0 THEN "done" ELSE "merging"
    /\ UNCHANGED <<script, fed, root, merged_channel, merged_programme, seen_channels, files>>
    /\ UNCHANGED notMergeVars

\* merge_epg.py: one iteration of the loop over epg_urls, every child is appended
MainFeed ==
    /\ script = "merge_epg"
    /\ mpc = "merging"
    /\ Len(fed) < n_urls
    /\ \E f \in FeedDocs :
         /\ root' = root \o f
         /\ fed' = Append(fed, FeedOk(f))
    /\ UNCHANGED <<script, mpc, n_urls, merged_channel, merged_programme, seen_channels, files>>
    /\ UNCHANGED notMergeVars

\* merge_epg.py: the download or the parse raises, the except clause logs it
MainFeedFail ==
    /\ script = "merge_epg"
    /\ mpc = "merging"
    /\ Len(fed) < n_urls
    /\ fed' = Append(fed, FeedFailed)
    /\ UNCHANGED <<script, mpc, n_urls, root, merged_channel, merged_programme,
                   seen_channels, files>>
    /\ UNCHANGED notMergeVars

\* merge_epg.py: optimize_epg_content(root)
MainOptimize ==
    /\ script = "merge_epg"
    /\ mpc = "merging"
    /\ Len(fed) = n_urls
    /\ root' = OptimizeEpgContent(root)
    /\ mpc' = "optimized"
    /\ UNCHANGED <<script, n_urls, fed, merged_channel, merged_programme, seen_channels, files>>
    /\ UNCHANGED notMergeVars

\* merge_epg.py: write the two output files, each in its own try
MainWrite ==
    /\ script = "merge_epg"
    /\ mpc = "optimized"
    /\ \E xml_ok, gz_ok \in BOOLEAN :
         files' = (IF xml_ok THEN {"combined_epg_reduced.xml"} ELSE {})
                      \cup (IF gz_ok THEN {"combined_epg.xml.gz"} ELSE {})
    /\ mpc' = "done"
    /\ UNCHANGED <<script, n_urls, fed, root, merged_channel, merged_programme, seen_channels>>
    /\ UNCHANGED notMergeVars

NextMerge ==
    \/ MergeEpgsStart
    \/ MergeEpgsFeed
    \/ MergeEpgsFeedFail
    \/ MergeEpgsWrite
    \/ MainResolveUrls
    \/ MainFeed
    \/ MainFeedFail
    \/ MainOptimize
    \/ MainWrite

SpecMerge == InitMerge /\ [][NextMerge]_vars

-----------------------------------------------------------------------------
(* merge_epg.py: optimize_epg_content on the trees of a bounded family *)

txtBlank == <<32, 10>>
txtPadded == <<32, 97>>

\* The child elements a programme of the input tree is built from.
ChildPool ==
    { Child("icon", None, txtA, 0),
      Child("icon", None, txtEn, 0),
      Child("sub-title", txtWide, None, 0),
      Child("desc", txtWide, txtEn, 0),
      Child("desc", txtBlank, txtEn, 0),
      Child("desc", None, None, 0),
      Child("title", txtPadded, None, 0),
      Child("title", None, txtEn, 0),
      Child("title", None, None, 1),
      Child("category", txtWide, txtEn, 0) }

InitOpt ==
    /\ IdleFilter
    /\ IdleMerge
    /\ IdleMatch
    /\ opc = "built"
    /\ \E kids \in SeqsUpTo(ChildPool, MaxKids) :
         tree = << Prog(strA, kids), Chan(strB), Prog(strB, KidsIcons) >>
    /\ once = <<>>
    /\ twice = <<>>

\* optimize_epg_content(root)
OptimizeOnce ==
    /\ opc = "built"
    /\ once' = OptimizeEpgContent(tree)
    /\ opc' = "once"
    /\ UNCHANGED <<tree, twice>>
    /\ UNCHANGED notOptVars

\* optimize_epg_content(root) on the tree the first call left
OptimizeAgain ==
    /\ opc = "once"
    /\ twice' = OptimizeEpgContent(once)
    /\ opc' = "twice"
    /\ UNCHANGED <<tree, once>>
    /\ UNCHANGED notOptVars

NextOpt ==
    \/ OptimizeOnce
    \/ OptimizeAgain

SpecOpt == InitOpt /\ [][NextOpt]_vars

-----------------------------------------------------------------------------
(* generate_static_mapping.py: match_channels *)

\* fuzzy match threshold
SIM_THRESHOLD == 85

\* the position of the first whitespace character of t, Len(t) + 1 when none
FirstSpace(t) ==
    IF \E i \in DOMAIN t : IsSpace(t[i])
    THEN CHOOSE i \in DOMAIN t : IsSpace(t[i]) /\ \A j \in 1..(i - 1) : ~IsSpace(t[j])
    ELSE Len(t) + 1

\* str.split(): the whitespace-separated tokens
RECURSIVE Split(_)
Split(s) ==
    LET t == LStrip(s)
    IN  IF t = <<>> THEN <<>>
        ELSE <<SubSeq(t, 1, FirstSpace(t) - 1)>> \o Split(SubSeq(t, FirstSpace(t), Len(t)))

\* a < b for strings
RECURSIVE StrLess(_, _)
StrLess(a, b) ==
    IF b = <<>> THEN FALSE
    ELSE IF a = <<>> THEN TRUE
    ELSE IF a[1] # b[1] THEN a[1] < b[1]
    ELSE StrLess(Tail(a), Tail(b))

RECURSIVE InsertSorted(_, _)
InsertSorted(x, sorted) ==
    IF sorted = <<>> THEN <<x>>
    ELSE IF StrLess(x, sorted[1]) THEN <<x>> \o sorted
    ELSE <<sorted[1]>> \o InsertSorted(x, Tail(sorted))

\* sorted(tokens)
RECURSIVE SortTokens(_)
SortTokens(tokens) ==
    IF tokens = <<>> THEN <<>> ELSE InsertSorted(tokens[1], SortTokens(Tail(tokens)))

\* " ".join(tokens)
RECURSIVE Join(_)
Join(tokens) ==
    IF tokens = <<>> THEN <<>>
    ELSE IF Len(tokens) = 1 THEN tokens[1]
    ELSE tokens[1] \o <<32>> \o Join(Tail(tokens))

Max(a, b) == IF a >= b THEN a ELSE b

\* one row of the longest-common-subsequence table, from the row above it
\* (acc holds the entries for columns 0..Len(acc)-1)
RECURSIVE LcsRow(_, _, _, _)
LcsRow(prev, c, b, acc) ==
    IF Len(acc) > Len(b) THEN acc
    ELSE LET j == Len(acc)
         IN  LcsRow(prev, c, b,
                    Append(acc, IF c = b[j] THEN prev[j] + 1 ELSE Max(prev[j + 1], acc[j])))

RECURSIVE LcsRows(_, _, _, _)
LcsRows(a, b, i, row) ==
    IF i > Len(a) THEN row[Len(b) + 1]
    ELSE LcsRows(a, b, i + 1, LcsRow(row, a[i], b, <<0>>))

\* the length of the longest common subsequence of a and b
Lcs(a, b) == LcsRows(a, b, 1, [j \in 1..(Len(b) + 1) |-> 0])

\* fuzz.ratio: the normalized Indel similarity times 100, as the fraction
\* <<numerator, denominator>>; 100 for two empty strings
Ratio(a, b) ==
    IF Len(a) + Len(b) = 0 THEN <<100, 1>>
    ELSE <<200 * Lcs(a, b), Len(a) + Len(b)>>

\* fuzz.token_sort_ratio(a, b)
TokenSortRatio(a, b) == Ratio(Join(SortTokens(Split(a))), Join(SortTokens(Split(b))))

\* p > q and p >= n for scores p, q and an integer n
ScoreGt(p, q) == p[1] * q[2] > q[1] * p[2]
ScoreGe(p, n) == p[1] >= n * p[2]

BetterOrEqual(score, best_score, threshold) ==
    ~ScoreGt(best_score, score) /\ ScoreGe(score, threshold)

\* if score > best_score and score >= SIM_THRESHOLD
Better(score, best_score, threshold) ==
    ScoreGt(score, best_score) /\ ScoreGe(score, threshold)

\* m_candidates = [m["tvg-name"], m["display-name"]]
MCandidates(m) == <<m.tvg_name, m.display_name>>

\* the two nested loops over epg_channels and m_candidates, from step k on:
\* <<best_score, best_epg>>, best_epg the position of the channel, 0 for None
RECURSIVE BestFrom(_, _, _, _, _, _)
BestFrom(m, epgs, threshold, k, best_score, best_epg) ==
    IF k > 2 * Len(epgs) THEN <<best_score, best_epg>>
    ELSE LET e == (k + 1) \div 2
             candidate == MCandidates(m)[((k - 1) % 2) + 1]
             score == TokenSortRatio(Lower(candidate), Lower(epgs[e].name))
         IN  IF Better(score, best_score, threshold)
             THEN BestFrom(m, epgs, threshold, k + 1, score, e)
             ELSE BestFrom(m, epgs, threshold, k + 1, best_score, best_epg)

\* best_epg after the loops, for one playlist channel
BestEpg(m, epgs, threshold) == BestFrom(m, epgs, threshold, 1, <<0, 1>>, 0)[2]

\* mapping[key] = value
Put(map, key, value) == [k \in DOMAIN map \cup {key} |-> IF k = key THEN value ELSE map[k]]

\* match_channels(m3u_channels, epg_channels)
RECURSIVE MatchChannelsFrom(_, _, _, _, _)
MatchChannelsFrom(m3u, epgs, threshold, i, map) ==
    IF i > Len(m3u) THEN map
    ELSE LET best == BestEpg(m3u[i], epgs, threshold)
         IN  MatchChannelsFrom(m3u, epgs, threshold, i + 1,
                 IF best # 0 THEN Put(map, m3u[i].display_name, epgs[best].id) ELSE map)

\* the names "ESPN HD", "ESPN", "ESPN2", "Fox Sports", "sports fox", "Q"
nameEspnHd == <<69, 83, 80, 78, 32, 72, 68>>
nameEspn == <<69, 83, 80, 78>>
nameEspn2 == <<69, 83, 80, 78, 50>>
nameFoxSports == <<70, 111, 120, 32, 83, 112, 111, 114, 116, 115>>
nameSportsFox == <<115, 112, 111, 114, 116, 115, 32, 102, 111, 120>>
nameQ == <<81>>

M3uChannel(tvg, display) == [tvg_name |-> tvg, display_name |-> display]

\* The playlists parse_m3u may return.
M3uLists ==
    { << M3uChannel(nameEspnHd, nameEspnHd) >>,
      << M3uChannel(<<>>, nameEspnHd) >>,
      << M3uChannel(nameEspn, nameEspn) >>,
      << M3uChannel(nameEspn2, nameSportsFox) >>,
      << M3uChannel(<<>>, nameQ) >>,
      << M3uChannel(nameQ, nameEspn), M3uChannel(nameFoxSports, nameSportsFox) >>,
      << M3uChannel(nameEspn, nameQ), M3uChannel(nameQ, nameQ) >> }

\* The display names of the EPG channels download_epg_channels may return.
EpgNames == { nameEspn, nameEspn2, nameFoxSports, <<>> }

\* The EPG channel at position i: its id is its position.
EpgChannel(i, name) == [id |-> i, name |-> name]

\* The thresholds SIM_THRESHOLD is configured to.
Thresholds == { 0, 1, SIM_THRESHOLD, 89, 100 }

InitMatch ==
    /\ IdleFilter
    /\ IdleMerge
    /\ IdleOpt
    /\ fpc = "loaded"
    /\ sim_threshold \in Thresholds
    /\ m3u_channels \in M3uLists
    /\ \E names \in SeqsUpTo(EpgNames, MaxCands) :
         epg_channels = [i \in DOMAIN names |-> EpgChannel(i, names[i])]
    /\ mapping = [k \in {} |-> 0]

\* mapping = match_channels(m3u_channels, epg_channels)
MatchChannels ==
    /\ fpc = "loaded"
    /\ mapping' = MatchChannelsFrom(m3u_channels, epg_channels, sim_threshold, 1,
                                    [k \in {} |-> 0])
    /\ fpc' = "matched"
    /\ UNCHANGED <<sim_threshold, m3u_channels, epg_channels>>
    /\ UNCHANGED notMatchVars

\* json.dump(mapping, f)
WriteMapping ==
    /\ fpc = "matched"
    /\ fpc' = "written"
    /\ UNCHANGED <<sim_threshold, m3u_channels, epg_channels, mapping>>
    /\ UNCHANGED notMatchVars

NextMatch ==
    \/ MatchChannels
    \/ WriteMapping

SpecMatch == InitMatch /\ [][NextMatch]_vars

-----------------------------------------------------------------------------
(* Properties of filter mode *)

\* The WantedSet of the run, normalized: the non-blank lines, stripped and lowercased.
NormalizedWanted == {Lower(w) : w \in {Strip(l) : l \in Range(channel_lines)} \ {<<>>}}

\* c is a channel element whose normalized id is wanted
IsWantedChannel(c) == c.kind = "channel" /\ Lower(CidRaw(c)) \in NormalizedWanted

\* some channel element of d with exactly the id ref was accepted
AcceptedIn(ref, d) == \E j \in DOMAIN d : IsWantedChannel(d[j]) /\ d[j].attr = ref

\* C1: the channel elements written are exactly the channel elements of the input
\* whose lowercased id is in the lowercased WantedSet, each written as it was read
\* (original casing), in input order.
FilterChannelsIffWanted ==
    ElemsOfKind(out_gz, "channel") = SelectSeq(ElemsOfKind(doc, "channel"), IsWantedChannel)

\* C1 witness: an upper-case id was accepted through its lower-case entry and
\* written with its original casing, and another channel of the input was rejected.
FilterChannelsWitness ==
    /\ stra \in wanted_ids_lower
    /\ strA \notin wanted_ids_lower
    /\ \E i \in DOMAIN out_gz : out_gz[i] = ChannelElem(strA)
    /\ \E j \in DOMAIN doc : doc[j].kind = "channel" /\ ~IsWantedChannel(doc[j])

\* C2 as stated: when the run has completed, the set of programmes written is the
\* set of programmes of the input whose channelRef is the id of a channel accepted
\* anywhere in the run, whatever the order of the elements.
FilterProgrammeSetAnyOrder ==
    pc \in {"filtered", "done"} =>
        Range(ElemsOfKind(out_gz, "programme"))
          = {p \in Range(ElemsOfKind(doc, "programme")) : AcceptedIn(p.attr, doc)}

RECURSIVE ProgrammesAfterChannel(_, _)
ProgrammesAfterChannel(d, n) ==
    IF n = 0 THEN <<>>
    ELSE LET before == ProgrammesAfterChannel(d, n - 1)
         IN  IF d[n].kind = "programme" /\ AcceptedIn(d[n].attr, SubSeq(d, 1, n - 1))
             THEN Append(before, d[n])
             ELSE before

\* C2 amended: when the run has completed, the programmes written are, in input
\* order, exactly the programmes of the input whose channelRef is the id of a
\* channel accepted at an earlier position of the stream.
FilterProgrammesAfterChannel ==
    pc \in {"filtered", "done"} =>
        ElemsOfKind(out_gz, "programme") = ProgrammesAfterChannel(doc, Len(doc))

\* C2 witness: a completed run in which a programme read before its channel was
\* dropped and a programme of the same channel read after it was written.
FilterProgrammesWitness ==
    /\ pc = "filtered"
    /\ \E i, j, k \in DOMAIN doc :
         /\ i < j /\ j < k
         /\ doc[i] = ProgrammeElem(strA)
         /\ doc[j] = ChannelElem(strA)
         /\ doc[k] = ProgrammeElem(strA)
    /\ Len(ElemsOfKind(out_gz, "programme")) = 1

\* the step reads a programme element
ProgrammeStep == Len(doc') = Len(doc) + 1 /\ doc'[Len(doc')].kind = "programme"

\* C3 as stated: a programme is written iff its channelRef is exactly the id of a
\* channel accepted earlier; otherwise it is dropped with no error and no counter
\* of the run changes.
ProgrammeDropLeavesAllCounters ==
    [][ProgrammeStep =>
         LET p == doc'[Len(doc')]
         IN  IF AcceptedIn(p.attr, doc)
             THEN out_gz' = Append(out_gz, p)
             ELSE /\ out_gz' = out_gz
                  /\ pc' = pc
                  /\ UNCHANGED <<prog_counts, total_programmes_written,
                                 total_channels_written, kept_channel_ids, total_parsed>>]_vars

\* C3 amended: a programme is written iff its channelRef is exactly the id of a
\* channel accepted earlier; otherwise it is dropped with no error and the
\* per-channel and written counters stay as they are, while the count of parsed
\* elements advances by one as for every element.
ProgrammeWrittenIffAcceptedEarlier ==
    [][ProgrammeStep =>
         LET p == doc'[Len(doc')]
         IN  /\ total_parsed' = total_parsed + 1
             /\ IF AcceptedIn(p.attr, doc)
                THEN out_gz' = Append(out_gz, p)
                ELSE /\ out_gz' = out_gz
                     /\ pc' = pc
                     /\ UNCHANGED <<prog_counts, total_programmes_written,
                                    total_channels_written, kept_channel_ids>>]_vars

\* C3 witness: channel "A" was accepted, then a programme with channelRef "a"
\* (the same id in another case) and a programme of the unaccepted "B" were read
\* and neither was written.
ProgrammeDropWitness ==
    /\ pc = "streaming"
    /\ Len(doc) >= 3
    /\ doc[1] = ChannelElem(strA)
    /\ doc[2] = ProgrammeElem(stra)
    /\ doc[3] = ProgrammeElem(strB)
    /\ strA \in kept_channel_ids
    /\ ElemsOfKind(out_gz, "programme") = <<>>
    /\ total_parsed = Len(doc)

RECURSIVE SumCounts(_, _)
SumCounts(counts, keys) ==
    IF keys = {} THEN 0
    ELSE LET k == CHOOSE x \in keys : TRUE
         IN  counts[k] + SumCounts(counts, keys \ {k})

WrittenFor(c) ==
    Cardinality({i \in DOMAIN out_gz : out_gz[i].kind = "programme" /\ out_gz[i].attr = c})

\* C6: the counter of every accepted channel is the number of programmes written
\* for that channel, and the counters sum to the total of programmes written.
CountersMatchWritten ==
    /\ \A c \in DOMAIN prog_counts : prog_counts[c] = WrittenFor(c)
    /\ SumCounts(prog_counts, DOMAIN prog_counts) = total_programmes_written

\* some record of the input has been accepted and written
SomeRecordAccepted == \E i \in DOMAIN out_gz : out_gz[i].kind \in {"channel", "programme"}

\* C12: when the input XML turns out malformed midway through a filter run, after
\* some records have been accepted, the run ends in failure and no output file
\* exists afterwards.
FilterParseFailureLeavesNoOutput ==
    (SomeRecordAccepted /\ pc \notin {"streaming", "filtered", "done"}) =>
        /\ pc = "failed"
        /\ ~out_exists

\* the WantedSet has been loaded
WantedLoaded == pc \notin {"start", "channels_downloaded"}

\* C13: when the WantedSet loaded for a filter run is empty, the run fails before
\* the EPG byte stream is requested, opened or parsed and before any output is
\* opened.
EmptyWantedFailsFast ==
    (WantedLoaded /\ wanted_ids_lower = {}) =>
        /\ pc \in {"ids_loaded", "failed"}
        /\ doc = <<>>
        /\ ~out_exists

\* C16: after each channel or programme record has been processed the parser
\* retains nothing of it: the nodes of read records held at a record boundary
\* never exceed one element, however many records have been read.
ParserRetainsNoRecord == retained <= 1

\* the accepted records among the first n elements of d, in input order: the
\* wanted channels, and the programmes of a channel accepted before them
RECURSIVE AcceptedRecords(_, _)
AcceptedRecords(d, n) ==
    IF n = 0 THEN <<>>
    ELSE LET before == AcceptedRecords(d, n - 1)
         IN  IF \/ IsWantedChannel(d[n])
                \/ (d[n].kind = "programme" /\ AcceptedIn(d[n].attr, SubSeq(d, 1, n - 1)))
             THEN Append(before, d[n])
             ELSE before

\* C14: a filter run that completes has written, in this order, the XML
\* declaration once, <tv> once, the accepted records in input order and </tv>
\* once; at no time is a record written before <tv> or after </tv>.
FilterOutputStructure ==
    /\ pc \in {"filtered", "done"} =>
          /\ Len(out_gz) >= 3
          /\ out_gz[1].kind = "xmldecl"
          /\ out_gz[2].kind = "tvopen"
          /\ out_gz[Len(out_gz)].kind = "tvclose"
          /\ SubSeq(out_gz, 3, Len(out_gz) - 1) = AcceptedRecords(doc, Len(doc))
    /\ \A i \in DOMAIN out_gz :
          out_gz[i].kind \in {"channel", "programme"} =>
              /\ \E j \in 1..(i - 1) : out_gz[j].kind = "tvopen"
              /\ \A j \in 1..(i - 1) : out_gz[j].kind # "tvclose"

\* C14 witness: a completed run that wrote a channel and one of its programmes
\* between <tv> and </tv> and left out another element of the input.
FilterOutputWitness ==
    /\ pc = "done"
    /\ out_gz = <<XmlDecl, TvOpen, ChannelElem(strA), ProgrammeElem(strA), TvClose>>
    /\ Len(doc) > 2

-----------------------------------------------------------------------------
(* Properties of merge mode *)

\* the channel and programme elements of the merged output
MergedChannels == IF script = "update_epg" THEN merged_channel ELSE ElemsOfKind(root, "channel")

MergedProgrammes ==
    IF script = "update_epg" THEN merged_programme ELSE ElemsOfKind(root, "programme")

\* the elements of the feeds merged so far, in processing order
RECURSIVE Processed(_, _)
Processed(feeds, n) ==
    IF n = 0 THEN <<>>
    ELSE Processed(feeds, n - 1) \o (IF feeds[n].ok THEN feeds[n].elems ELSE <<>>)

\* first-seen-wins on the normalized id
RECURSIVE FirstSeenNormalized(_, _)
FirstSeenNormalized(chs, seen) ==
    IF chs = <<>> THEN <<>>
    ELSE IF Lower(chs[1].attr) \in seen
         THEN FirstSeenNormalized(Tail(chs), seen)
         ELSE <<chs[1]>> \o FirstSeenNormalized(Tail(chs), seen \cup {Lower(chs[1].attr)})

MergeRunning == mpc \in {"merging", "optimized", "done"} /\ n_urls > 0

\* C4: the merged output holds at most one channel element per lowercased id,
\* the first one encountered in processing order; later definitions are dropped.
MergeOneChannelPerNormalizedId ==
    MergeRunning =>
        MergedChannels
          = FirstSeenNormalized(ElemsOfKind(Processed(fed, Len(fed)), "channel"), {})

\* C5: a programme is in the merged output iff its channelRef is the id of a
\* channel accepted into the merged output.
MergeProgrammesRouted ==
    MergeRunning =>
        Range(MergedProgrammes)
          = {p \in Range(ElemsOfKind(Processed(fed, Len(fed)), "programme")) :
                p.attr \in {c.attr : c \in Range(MergedChannels)}}

\* the retrieval or the parse of some feed of the run has failed
SomeFeedFailed == \E i \in DOMAIN fed : ~fed[i].ok

\* C11: when the retrieval or the parse of one feed fails during a merge run, the
\* run does not fail (it stays in the loop over the feeds until every feed has
\* been gone through, then writes the output), and the failed feed adds no record
\* to the merged output.
MergeFailureIsolated ==
    SomeFeedFailed =>
        /\ mpc # "failed"
        /\ (mpc \in {"optimized", "done"}) => Len(fed) = n_urls
        /\ (script = "merge_epg" /\ mpc = "merging") => root = Processed(fed, Len(fed))

\* the phase of a merge run: Idle, then FetchingSources until records of a feed
\* have been taken into the merged output, then Streaming, Finalizing, Done;
\* Failed aside
StreamingBegun == \E i \in DOMAIN fed : fed[i].ok /\ fed[i].elems # <<>>

MergePhase ==
    CASE mpc = "start" -> "Idle"
      [] mpc = "merging" /\ ~StreamingBegun -> "FetchingSources"
      [] mpc = "merging" /\ StreamingBegun -> "Streaming"
      [] mpc = "optimized" -> "Finalizing"
      [] mpc = "done" -> "Done"
      [] OTHER -> "Failed"

PhaseOrder == <<"Idle", "FetchingSources", "Streaming", "Finalizing", "Done", "Failed">>

PhaseRank(ph) == CHOOSE i \in DOMAIN PhaseOrder : PhaseOrder[i] = ph

\* the step requests the next feed URL
FetchesSource == Len(fed') = Len(fed) + 1

\* C15: a run moves through Idle, FetchingSources, Streaming, Finalizing, Done in
\* that order, or to Failed, and never back: no step returns to an earlier
\* phase, and no source is fetched once the streaming of records has begun.
MergePhasesInOrder ==
    [][/\ PhaseRank(MergePhase') >= PhaseRank(MergePhase)
       /\ FetchesSource => MergePhase \in {"Idle", "FetchingSources"}]_vars

-----------------------------------------------------------------------------
(* Properties of the content optimization *)

\* C9: applying optimize_epg_content twice gives the tree one application gives.
OptimizeIdempotent == opc = "twice" => twice = once

InStripList(tag) == \E i \in DOMAIN elements_to_strip : elements_to_strip[i] = tag

InCheckList(tag) == \E i \in DOMAIN elements_to_check : elements_to_check[i] = tag

\* child a of the result is child b of the input: same tag, attributes and
\* children, and the same text unless it is a desc or a title
SameChild(a, b) ==
    /\ a.tag = b.tag
    /\ a.attrib = b.attrib
    /\ a.sub = b.sub
    /\ (a.text = b.text \/ InCheckList(a.tag))

\* a is b with some elements left out, the others in their order
RECURSIVE KeptInOrder(_, _)
KeptInOrder(a, b) ==
    IF a = <<>> THEN TRUE
    ELSE IF b = <<>> THEN FALSE
    ELSE \/ (SameChild(a[1], b[1]) /\ KeptInOrder(Tail(a), Tail(b)))
         \/ KeptInOrder(a, Tail(b))

Untouchable(k) == ~InStripList(k.tag) /\ ~InCheckList(k.tag)

\* C10: the pass keeps the order of the siblings it keeps, changes no attribute
\* value, and leaves every channel and every programme child outside the strip
\* list and outside desc/title as it was.
OptimizeFrame ==
    opc \in {"once", "twice"} =>
        /\ Len(once) = Len(tree)
        /\ \A i \in DOMAIN tree :
             /\ once[i].kind = tree[i].kind
             /\ once[i].attr = tree[i].attr
             /\ tree[i].kind = "channel" => once[i] = tree[i]
             /\ KeptInOrder(once[i].children, tree[i].children)
             /\ SelectSeq(once[i].children, Untouchable)
                  = SelectSeq(tree[i].children, Untouchable)

\* C10 witness: the pass removed an icon and rewrote a desc of a programme that
\* also holds a category, which is still there.
OptimizeFrameWitness ==
    /\ opc = "once"
    /\ tree[1].children = << Child("icon", None, txtA, 0), Child("category", txtWide, txtEn, 0),
                             Child("desc", txtWide, txtEn, 0) >>
    /\ Len(once[1].children) = 2
    /\ once[1].children[2].text # txtWide

\* C17: after optimize_epg_content no programme of the tree has a child whose
\* tag is in the strip list, however many such children it had before.
OptimizeStripsEveryListedChild ==
    opc \in {"once", "twice"} =>
        \A i \in DOMAIN once :
            once[i].kind = "programme" =>
                \A k \in DOMAIN once[i].children : ~InStripList(once[i].children[k].tag)

-----------------------------------------------------------------------------
(* Properties of the fuzzy matcher *)

\* the similarity of EPG channel i to the playlist channel m: the higher of the
\* scores of its two names
CandidateScore(m, i) ==
    LET byTvgName == TokenSortRatio(Lower(m.tvg_name), Lower(epg_channels[i].name))
        byDisplayName == TokenSortRatio(Lower(m.display_name), Lower(epg_channels[i].name))
    IN  IF ScoreGt(byTvgName, byDisplayName) THEN byTvgName ELSE byDisplayName

\* the earliest candidate among those of maximum score when that score is
\* >= threshold, 0 (nothing) when no candidate scores >= threshold
ExpectedMatch(m, threshold) ==
    LET qualifying == {i \in DOMAIN epg_channels : ScoreGe(CandidateScore(m, i), threshold)}
        top == {i \in qualifying :
                   \A j \in DOMAIN epg_channels :
                       ~ScoreGt(CandidateScore(m, j), CandidateScore(m, i))}
    IN  IF qualifying = {} THEN 0
        ELSE CHOOSE i \in top : \A j \in top : i <= j

\* the candidate the mapping gives for the playlist channel m, 0 for none
Matched(m) ==
    IF m.display_name \in DOMAIN mapping THEN mapping[m.display_name] ELSE 0

\* the playlist channels whose display-name no other channel of the playlist has
OwnKey(k) ==
    \A l \in DOMAIN m3u_channels :
        l # k => m3u_channels[l].display_name # m3u_channels[k].display_name

QualityTags ==
    { <<104, 100>>, <<102, 104, 100>>, <<115, 100>>, <<117, 104, 100>>, <<52, 107>>,
      <<49, 48, 56, 48, 112>> }

IsAlnumOrSpace(c) ==
    \/ IsSpace(c)
    \/ (c >= 48 /\ c <= 57)
    \/ (c >= 65 /\ c <= 90)
    \/ (c >= 97 /\ c <= 122)

\* the normalization the claim describes: lowercase, no punctuation, no quality
\* tag as a whole word
ClaimedNormalize(name) ==
    Join(SelectSeq(Split(SelectSeq(Lower(name), IsAlnumOrSpace)),
                   LAMBDA t : t \notin QualityTags))

\* C8: a playlist name and a candidate that are the same after lowercasing,
\* stripping punctuation and dropping quality tags are scored as identical
\* strings (100) and match at threshold 85.
MatchIgnoresQualityTags ==
    (fpc = "matched" /\ sim_threshold = SIM_THRESHOLD) =>
        \A k \in DOMAIN m3u_channels : \A i \in DOMAIN epg_channels :
            (/\ OwnKey(k)
             /\ ClaimedNormalize(m3u_channels[k].display_name)
                  = ClaimedNormalize(epg_channels[i].name))
            => /\ ScoreGe(CandidateScore(m3u_channels[k], i), 100)
               /\ Matched(m3u_channels[k]) # 0

=============================================================================
